---- MODULE Spec2Model ----
(***************************************************************************)
(* A model of the spelling-bee puzzle generator (src/main.go): the         *)
(* dictionary loader, the recursive combination generator, the rotation    *)
(* expander, the matcher pool and the puzzle writer, connected by Go       *)
(* channels.                                                               *)
(*                                                                         *)
(* A Go string is a sequence of one-character strings.  Only single-byte   *)
(* characters are modelled, so a byte index and a rune index coincide.     *)
(***************************************************************************)
EXTENDS Integers, Sequences, FiniteSets, Bags, TLC

(***************************************************************************)
(* Bounds of the model.                                                    *)
(***************************************************************************)
\* how many letters of the alphabet the model keeps (the program keeps 26)
AlphabetSize == 3
\* the largest value of the num_letters flag followed through the pipeline
MaxNumLetters == 2
\* the largest value of the parallel flag
MaxParallel == 2
\* the largest number of lines of a file given to the loader alone
MaxLines == 2
\* the largest number of files that meet a write error in one run
MaxWriteErrs == 1

(***************************************************************************)
(* Program constants.                                                      *)
(***************************************************************************)
Letters26 ==
  << "a", "b", "c", "d", "e", "f", "g", "h", "i", "j", "k", "l", "m",
     "n", "o", "p", "q", "r", "s", "t", "u", "v", "w", "x", "y", "z" >>

\* const alphabet, cut to the model's bound
alphabet == SubSeq(Letters26, 1, AlphabetSize)

\* len(w) < 5 in genAllWords
MinWordLen == 5
\* len(words) < 10 in matchWords
MinWords == 10
\* maxPts += 3 for a word that contains all letters
PangramPts == 3
\* maxPts += 1 for any other word
WordPts == 1
\* make(chan string, 1000) in genAllStrings
ChanCap == 1000

(***************************************************************************)
(* Strings.                                                                *)
(***************************************************************************)
Range(s) == { s[i] : i \in DOMAIN s }

\* the byte value of a lowercase letter, up to an order-preserving shift
Byte(ch) == CHOOSE i \in 1..26 : Letters26[i] = ch

\* unicode.IsSpace on the single-byte characters of the model
IsSpace(ch) == ch \in { " ", "\t", "\r", "\n" }

RECURSIVE TrimLeft(_)
TrimLeft(s) ==
  IF s # << >> /\ IsSpace(Head(s)) THEN TrimLeft(Tail(s)) ELSE s

RECURSIVE TrimRight(_)
TrimRight(s) ==
  IF s # << >> /\ IsSpace(s[Len(s)])
    THEN TrimRight(SubSeq(s, 1, Len(s) - 1))
    ELSE s

\* strings.TrimSpace
TrimSpace(s) == TrimRight(TrimLeft(s))

\* strings.Contains(word, string(ch)) and strings.ContainsRune(word, ch)
Contains(word, ch) == \E i \in 1..Len(word) : word[i] = ch

(***************************************************************************)
(* containsOnly: the runes of target are put in a map, then s is scanned   *)
(* and the first rune not in the map gives false.                          *)
(***************************************************************************)
RECURSIVE RuneSet(_, _)
RuneSet(target, rs) ==
  IF target = << >> THEN rs ELSE RuneSet(Tail(target), rs \cup { Head(target) })

RECURSIVE ScanOnly(_, _)
ScanOnly(s, rs) ==
  IF s = << >> THEN TRUE
  ELSE IF Head(s) \notin rs THEN FALSE
  ELSE ScanOnly(Tail(s), rs)

containsOnly(s, target) == ScanOnly(s, RuneSet(target, {}))

(***************************************************************************)
(* hasAtMostLetters: false as soon as the set of seen runes exceeds n.     *)
(***************************************************************************)
RECURSIVE ScanAtMost(_, _, _)
ScanAtMost(s, cs, n) ==
  IF s = << >> THEN TRUE
  ELSE LET cs2 == cs \cup { Head(s) }
       IN  IF Cardinality(cs2) > n THEN FALSE ELSE ScanAtMost(Tail(s), cs2, n)

\* a test that asks for fewer than n distinct letters
hasFewerLetters(s, n) == ScanAtMost(s, {}, n - 1)

hasAtMostLetters(s, n) == ScanAtMost(s, {}, n)

(***************************************************************************)
(* genAllWords: the file is a byte sequence; ReadBytes('\n') returns the   *)
(* bytes up to and including the next newline, or the remaining bytes      *)
(* together with io.EOF when there is no newline left.                     *)
(***************************************************************************)
RECURSIVE DelimAt(_, _)
DelimAt(bytes, i) ==
  IF i > Len(bytes) THEN 0
  ELSE IF bytes[i] = "\n" THEN i
  ELSE DelimAt(bytes, i + 1)

ReadBytes(bytes) ==
  LET k == DelimAt(bytes, 1)
  IN  IF k # 0
        THEN [ data |-> SubSeq(bytes, 1, k), eof |-> FALSE,
               rest |-> SubSeq(bytes, k + 1, Len(bytes)) ]
        ELSE [ data |-> bytes, eof |-> TRUE, rest |-> << >> ]

\* the three tests of the loop body of genAllWords on the trimmed line
KeepWord(w, n) ==
  /\ ~ (Len(w) < MinWordLen)
  /\ containsOnly(w, alphabet)
  /\ hasAtMostLetters(w, n)

\* one turn of the read loop of genAllWords: break on io.EOF, else the line
\* is trimmed, tested and appended
ReadTurn(bytes, words, n) ==
  LET r == ReadBytes(bytes)
      w == TrimSpace(r.data)
  IN  IF r.eof
        THEN [ eof |-> TRUE, rest |-> bytes, words |-> words ]
        ELSE [ eof |-> FALSE, rest |-> r.rest,
               words |-> IF KeepWord(w, n) THEN Append(words, w) ELSE words ]

\* genAllWords, from the open file to its return value
RECURSIVE ReadLoop(_, _, _)
ReadLoop(bytes, words, n) ==
  LET t == ReadTurn(bytes, words, n)
  IN  IF t.eof THEN t.words ELSE ReadLoop(t.rest, t.words, n)

genAllWords(bytes, n) == ReadLoop(bytes, << >>, n)

(***************************************************************************)
(* matchWords, the body of its loop for one received string s.             *)
(***************************************************************************)
\* a first loop that does not ask for s[0]
RECURSIVE MatchLoopAnywhere(_, _, _)
MatchLoopAnywhere(allWords, s, words) ==
  IF allWords = << >> THEN words
  ELSE IF containsOnly(Head(allWords), s)
    THEN MatchLoopAnywhere(Tail(allWords), s, Append(words, Head(allWords)))
    ELSE MatchLoopAnywhere(Tail(allWords), s, words)

\* the first loop: the words that contain s[0] and only letters of s
RECURSIVE MatchLoop(_, _, _)
MatchLoop(allWords, s, words) ==
  IF allWords = << >> THEN words
  ELSE LET word == Head(allWords)
       IN  IF ~ Contains(word, s[1])
             THEN MatchLoop(Tail(allWords), s, words)
           ELSE IF containsOnly(word, s)
             THEN MatchLoop(Tail(allWords), s, Append(words, word))
           ELSE MatchLoop(Tail(allWords), s, words)

\* containsAll of the second loop: no letter of s is missing from w
ContainsAll(w, s) == ~ \E i \in 1..Len(s) : ~ Contains(w, s[i])

\* a second loop that gives every word one point
RECURSIVE ScoreLoopFlat(_, _, _)
ScoreLoopFlat(words, s, acc) ==
  IF words = << >> THEN acc
  ELSE ScoreLoopFlat(Tail(words), s,
         [ maxPts |-> acc.maxPts + WordPts,
           someContainsAll |-> acc.someContainsAll
                                 \/ ContainsAll(Head(words), s) ])

\* the second loop: the score and whether some word contains all letters
RECURSIVE ScoreLoop(_, _, _)
ScoreLoop(words, s, acc) ==
  IF words = << >> THEN acc
  ELSE IF ContainsAll(Head(words), s)
    THEN ScoreLoop(Tail(words), s,
           [ maxPts |-> acc.maxPts + PangramPts, someContainsAll |-> TRUE ])
    ELSE ScoreLoop(Tail(words), s,
           [ maxPts |-> acc.maxPts + WordPts,
             someContainsAll |-> acc.someContainsAll ])

NoPuzzle == [ letters |-> << >>, words |-> << >>, maxPts |-> 0 ]

\* a matcher that needs more than MinWords words
MatchOneStrict(allWords, s) ==
  LET words == MatchLoop(allWords, s, << >>)
  IN  IF Len(words) <= MinWords THEN NoPuzzle
      ELSE LET sc == ScoreLoop(words, s, [ maxPts |-> 0, someContainsAll |-> FALSE ])
           IN  IF ~ sc.someContainsAll THEN NoPuzzle
               ELSE [ letters |-> s, words |-> words, maxPts |-> sc.maxPts ]

\* the puzzle sent for s, or NoPuzzle when the loop continues without a send
MatchOne(allWords, s) ==
  LET words == MatchLoop(allWords, s, << >>)
  IN  IF Len(words) < MinWords THEN NoPuzzle
      ELSE LET sc == ScoreLoop(words, s, [ maxPts |-> 0, someContainsAll |-> FALSE ])
           IN  IF ~ sc.someContainsAll THEN NoPuzzle
               ELSE [ letters |-> s, words |-> words, maxPts |-> sc.maxPts ]

\* no rotation at all: s is sent Len(s) times
RotationNone(s, i) == s

\* a rotation by 2i places instead of i
RotationDouble(s, i) ==
  SubSeq(s, ((2 * i) % Len(s)) + 1, Len(s)) \o SubSeq(s, 1, (2 * i) % Len(s))

\* a rotation to the right instead of to the left
RotationRight(s, i) ==
  SubSeq(s, Len(s) - i + 1, Len(s)) \o SubSeq(s, 1, Len(s) - i)

\* rotate: the string sent for index i (0-based) of s
Rotation(s, i) == SubSeq(s, i + 1, Len(s)) \o SubSeq(s, 1, i)


\* strconv of a non-negative int, as fmt.Fprintln prints it
Digits == << "0", "1", "2", "3", "4", "5", "6", "7", "8", "9" >>

RECURSIVE Decimal(_)
Decimal(n) ==
  IF n < 10 THEN << Digits[n + 1] >>
  ELSE Append(Decimal(n \div 10), Digits[(n % 10) + 1])

\* writePuzzles: fn := p.letters + ".txt"
FileName(p) == p.letters \o << ".", "t", "x", "t" >>

\* a writer that leaves the score out
FileLinesNoScore(p) == p.words

\* writePuzzles: one Fprintln per word, then one for maxPts
FileLines(p) == Append(p.words, Decimal(p.maxPts))

(***************************************************************************)
(* Input files of the model.                                               *)
(***************************************************************************)
Rep(ch, n) == [ i \in 1..n |-> ch ]

\* ch repeated lo, lo+1, ..., hi times
Runs(ch, lo, hi) == [ i \in 1..(hi - lo + 1) |-> Rep(ch, lo + i - 1) ]

RECURSIVE JoinLines(_)
JoinLines(lines) ==
  IF lines = << >> THEN << >>
  ELSE Head(lines) \o << "\n" >> \o JoinLines(Tail(lines))

\* the bytes of a file with these lines; the last line has no newline when
\* terminated is false
FileOf(lines, terminated) ==
  LET bytes == JoinLines(lines)
  IN  IF terminated \/ bytes = << >> THEN bytes
      ELSE SubSeq(bytes, 1, Len(bytes) - 1)

MixedWords ==
  << << "a", "a", "a", "a", "b" >>,
     << "b", "c", "b", "c", "b" >>,
     << "c", "c", "c", "c", "b" >> >>

JunkLines ==
  << << "a", "b", "a", "b" >>,
     << "A", "a", "a", "a", "a", "a" >>,
     << "a", "a", "1", "a", "a", "a" >>,
     << " ", "a", "a", "a", "b", "b", "\t" >>,
     << >>,
     << "a", "b", "c", "a", "b", "c" >> >>

WordList1 ==
  Runs("a", 5, 14) \o Runs("b", 5, 14) \o Runs("c", 5, 13)
    \o MixedWords \o JunkLines

WordList2 == Runs("b", 5, 13) \o JunkLines \o Runs("b", 14, 14)

Files == { FileOf(WordList1, TRUE), FileOf(WordList2, FALSE) }

(***************************************************************************)
(* State.                                                                  *)
(***************************************************************************)
VARIABLES
  numLetters,     \* flag num_letters
  parallel,       \* flag parallel
  fileBytes,      \* the content of the file named by flag words_file
  exit,           \* "running", "exit0" (main returned) or "fatal" (log.Fatalf)
  mainpc,         \* where main is
  rest,           \* genAllWords: the bytes not yet read
  allWords,       \* genAllWords: the words kept so far; then main's allWords
  mainI,          \* main: i of the loop that starts the matchers
  wg,             \* main: counter of WaitGroup wg
  wg2,            \* main: counter of WaitGroup wg2
  genpc,          \* genAllStrings(d, ..): where the call with n = d is
  genci,          \* genAllStrings(d, ..): index in alphabet of c
  genval,         \* genAllStrings(d, ..): the string being sent
  chbuf,          \* chbuf[d]: buffer of the out channel of genAllStrings(d, ..)
  chclosed,       \* chclosed[d]: that channel is closed
  rotpc,          \* rotate: where it is
  rots,           \* rotate: s
  roti,           \* rotate: i
  rotatedClosed,  \* channel rotated is closed
  workers,        \* the matchWords goroutines: a bag of [pc, puz]
  puzzlesClosed,  \* channel puzzles is closed
  wrpc,           \* writePuzzles: where it is
  wrp,            \* writePuzzles: p
  files,          \* directory ./puzzels: file name -> lines
  genSent,        \* history: the strings received from channel strings
  rotSent,        \* history: the strings received from channel rotated
  sentPuzzles,    \* history: letters of the puzzles received from channel puzzles
  created,        \* history: the names given to os.Create, in order
  ioErrs          \* history: the files with a write error that was ignored

mainVars == << numLetters, parallel, fileBytes, exit, mainpc, rest, allWords,
               mainI, wg, wg2 >>
genVars == << genpc, genci, genval, chbuf, chclosed >>
rotVars == << rotpc, rots, roti, rotatedClosed >>
workVars == << workers, puzzlesClosed >>
writeVars == << wrpc, wrp, files >>
histVars == << genSent, rotSent, sentPuzzles, created, ioErrs >>
vars == << mainVars, genVars, rotVars, workVars, writeVars, histVars >>

Depths == 1..numLetters

\* The matchers are goroutines of one anonymous function that captures no
\* loop variable: they have no identity, and the pool is the bag of their
\* positions.  A matcher is about to receive, is sending puzzle puz, or has
\* returned.
WRecv == [ pc |-> "recv", puz |-> NoPuzzle ]
WSend(p) == [ pc |-> "send", puz |-> p ]
WDone == [ pc |-> "done", puz |-> NoPuzzle ]
WMove(from, to) == (workers (-) SetToBag({ from })) (+) SetToBag({ to })

\* the state when main is entered, flags parsed
Start ==
  /\ exit = "running"
  /\ mainpc = "goGen"
  /\ rest = << >>
  /\ allWords = << >>
  /\ mainI = 0
  /\ wg = 0
  /\ wg2 = 0
  /\ genpc = [ d \in Depths |-> "idle" ]
  /\ genci = [ d \in Depths |-> 1 ]
  /\ genval = [ d \in Depths |-> << >> ]
  /\ chbuf = [ d \in Depths |-> << >> ]
  /\ chclosed = [ d \in Depths |-> FALSE ]
  /\ rotpc = "idle"
  /\ rots = << >>
  /\ roti = 0
  /\ rotatedClosed = FALSE
  /\ workers = EmptyBag
  /\ puzzlesClosed = FALSE
  /\ wrpc = "idle"
  /\ wrp = NoPuzzle
  /\ files = << >>
  /\ genSent = << >>
  /\ rotSent = << >>
  /\ sentPuzzles = << >>
  /\ created = << >>
  /\ ioErrs = {}

Init ==
  /\ numLetters \in 1..MaxNumLetters
  /\ parallel \in 1..MaxParallel
  /\ fileBytes \in Files
  /\ Start

Running == exit = "running"

(***************************************************************************)
(* main.                                                                   *)
(***************************************************************************)
\* strings := make(chan string); go genAllStrings(*numLetters, strings)
MainGoGen ==
  /\ Running /\ mainpc = "goGen"
  /\ genpc' = [ genpc EXCEPT ![numLetters] = "loop" ]
  /\ mainpc' = "goRotate"
  /\ UNCHANGED << numLetters, parallel, fileBytes, exit, rest, allWords, mainI,
                  wg, wg2, genci, genval, chbuf, chclosed, rotVars, workVars,
                  writeVars, histVars >>

\* rotated := make(chan string); go rotate(strings, rotated)
MainGoRotate ==
  /\ Running /\ mainpc = "goRotate"
  /\ rotpc' = "recv"
  /\ mainpc' = "goWriter"
  /\ UNCHANGED << numLetters, parallel, fileBytes, exit, rest, allWords, mainI,
                  wg, wg2, genVars, rots, roti, rotatedClosed, workVars,
                  writeVars, histVars >>

\* puzzles := make(chan puzzle); wg2.Add(1); go func() { writePuzzles(puzzles) }()
MainGoWriter ==
  /\ Running /\ mainpc = "goWriter"
  /\ wg2' = wg2 + 1
  /\ wrpc' = "recv"
  /\ mainpc' = "open"
  /\ UNCHANGED << numLetters, parallel, fileBytes, exit, rest, allWords, mainI,
                  wg, genVars, rotVars, workVars, wrp, files, histVars >>

\* genAllWords: os.Open succeeds
MainOpen ==
  /\ Running /\ mainpc = "open"
  /\ rest' = fileBytes
  /\ allWords' = << >>
  /\ mainpc' = "read"
  /\ UNCHANGED << numLetters, parallel, fileBytes, exit, mainI, wg, wg2,
                  genVars, rotVars, workVars, writeVars, histVars >>

\* genAllWords: os.Open fails, log.Fatalf
MainOpenFail ==
  /\ Running /\ mainpc = "open"
  /\ exit' = "fatal"
  /\ UNCHANGED << numLetters, parallel, fileBytes, mainpc, rest, allWords,
                  mainI, wg, wg2, genVars, rotVars, workVars, writeVars,
                  histVars >>

\* genAllWords: one turn of the read loop, ReadBytes without an I/O error
MainReadLine ==
  /\ Running /\ mainpc = "read"
  /\ LET t == ReadTurn(rest, allWords, numLetters)
     IN  /\ rest' = t.rest
         /\ allWords' = t.words
         /\ mainpc' = IF t.eof THEN "goWorkers" ELSE mainpc
  /\ UNCHANGED << numLetters, parallel, fileBytes, exit, mainI, wg, wg2,
                  genVars, rotVars, workVars, writeVars, histVars >>

\* genAllWords: ReadBytes returns an error other than io.EOF, log.Fatalf
MainReadFail ==
  /\ Running /\ mainpc = "read"
  /\ exit' = "fatal"
  /\ UNCHANGED << numLetters, parallel, fileBytes, mainpc, rest, allWords,
                  mainI, wg, wg2, genVars, rotVars, workVars, writeVars,
                  histVars >>

\* one turn of the loop that starts the matchers: wg.Add(1); go func() {...}()
MainGoWorker ==
  /\ Running /\ mainpc = "goWorkers"
  /\ mainI < parallel
  /\ wg' = wg + 1
  /\ workers' = workers (+) SetToBag({ WRecv })
  /\ mainI' = mainI + 1
  /\ UNCHANGED << numLetters, parallel, fileBytes, exit, mainpc, rest,
                  allWords, wg2, genVars, rotVars, puzzlesClosed, writeVars,
                  histVars >>

\* a main that closes puzzles without wg.Wait()
MainClosePuzzlesNoWait ==
  /\ Running /\ mainpc = "goWorkers"
  /\ ~ (mainI < parallel)
  /\ puzzlesClosed' = TRUE
  /\ mainpc' = "wait2"
  /\ UNCHANGED << numLetters, parallel, fileBytes, exit, rest, allWords, mainI,
                  wg, wg2, genVars, rotVars, workers, writeVars, histVars >>

\* wg.Wait() returns; close(puzzles)
MainClosePuzzles ==
  /\ Running /\ mainpc = "goWorkers"
  /\ ~ (mainI < parallel)
  /\ wg = 0
  /\ puzzlesClosed' = TRUE
  /\ mainpc' = "wait2"
  /\ UNCHANGED << numLetters, parallel, fileBytes, exit, rest, allWords, mainI,
                  wg, wg2, genVars, rotVars, workers, writeVars, histVars >>

\* a main that returns without wg2.Wait()
MainExitNoWait ==
  /\ Running /\ mainpc = "wait2"
  /\ mainpc' = "done"
  /\ exit' = "exit0"
  /\ UNCHANGED << numLetters, parallel, fileBytes, rest, allWords, mainI, wg,
                  wg2, genVars, rotVars, workVars, writeVars, histVars >>

\* wg2.Wait() returns; main returns
MainExit ==
  /\ Running /\ mainpc = "wait2"
  /\ wg2 = 0
  /\ mainpc' = "done"
  /\ exit' = "exit0"
  /\ UNCHANGED << numLetters, parallel, fileBytes, rest, allWords, mainI, wg,
                  wg2, genVars, rotVars, workVars, writeVars, histVars >>

(***************************************************************************)
(* genAllStrings(d, out).  The call with n = numLetters sends on the       *)
(* unbuffered channel strings, which rotate receives from; the call with   *)
(* n = d below that sends on the buffered channel its caller made.         *)
(***************************************************************************)
\* a send on strings that does not wait for rotate to receive
SendOutNoWait(d, v) ==
  IF d = numLetters
    THEN /\ rotpc \in { "recv", "send" }
         /\ rots' = v
         /\ roti' = 0
         /\ rotpc' = IF 0 < Len(v) THEN "send" ELSE "recv"
         /\ genSent' = Append(genSent, v)
         /\ UNCHANGED chbuf
    ELSE /\ Len(chbuf[d]) < ChanCap
         /\ chbuf' = [ chbuf EXCEPT ![d] = Append(@, v) ]
         /\ UNCHANGED << rotpc, rots, roti, genSent >>

\* out <- v
SendOut(d, v) ==
  IF d = numLetters
    THEN /\ rotpc = "recv"
         /\ rots' = v
         /\ roti' = 0
         /\ rotpc' = IF 0 < Len(v) THEN "send" ELSE "recv"
         /\ genSent' = Append(genSent, v)
         /\ UNCHANGED chbuf
    ELSE /\ Len(chbuf[d]) < ChanCap
         /\ chbuf' = [ chbuf EXCEPT ![d] = Append(@, v) ]
         /\ UNCHANGED << rotpc, rots, roti, genSent >>

\* n == 1: out <- string(c); continue
GenEmitLetter(d) ==
  /\ Running /\ genpc[d] = "loop"
  /\ genci[d] <= Len(alphabet)
  /\ d = 1
  /\ SendOut(d, << alphabet[genci[d]] >>)
  /\ genci' = [ genci EXCEPT ![d] = @ + 1 ]
  /\ UNCHANGED << mainVars, genpc, genval, chclosed, rotatedClosed, workVars,
                  writeVars, rotSent, sentPuzzles, created, ioErrs >>

\* ch := make(chan string, 1000); go genAllStrings(n-1, ch)
GenSpawn(d) ==
  /\ Running /\ genpc[d] = "loop"
  /\ genci[d] <= Len(alphabet)
  /\ d # 1
  /\ genpc' = [ genpc EXCEPT ![d] = "recv", ![d - 1] = "loop" ]
  /\ genci' = [ genci EXCEPT ![d - 1] = 1 ]
  /\ chbuf' = [ chbuf EXCEPT ![d - 1] = << >> ]
  /\ chclosed' = [ chclosed EXCEPT ![d - 1] = FALSE ]
  /\ UNCHANGED << mainVars, genval, rotVars, workVars, writeVars, histVars >>

\* a generator without the filter
AcceptsAny(c, r) == TRUE

\* a generator whose filter lets the letter c itself through
AcceptsSame(c, r) == Byte(r[1]) >= Byte(c)

\* if rest[0] > byte(c)
Accepts(c, r) == Byte(r[1]) > Byte(c)

\* a channel that hands out the newest string first
GenRecvLast(d) ==
  /\ Running /\ genpc[d] = "recv"
  /\ chbuf[d - 1] # << >>
  /\ LET r == chbuf[d - 1][Len(chbuf[d - 1])]
         c == alphabet[genci[d]]
     IN  IF Accepts(c, r)
           THEN /\ genval' = [ genval EXCEPT ![d] = << c >> \o r ]
                /\ genpc' = [ genpc EXCEPT ![d] = "send" ]
           ELSE UNCHANGED << genval, genpc >>
  /\ chbuf' = [ chbuf EXCEPT ![d - 1] = SubSeq(@, 1, Len(@) - 1) ]
  /\ UNCHANGED << mainVars, genci, chclosed, rotVars, workVars, writeVars,
                  histVars >>

\* for rest := range ch: a string is received
GenRecv(d) ==
  /\ Running /\ genpc[d] = "recv"
  /\ chbuf[d - 1] # << >>
  /\ LET r == Head(chbuf[d - 1])
         c == alphabet[genci[d]]
     IN  IF Accepts(c, r)
           THEN /\ genval' = [ genval EXCEPT ![d] = << c >> \o r ]
                /\ genpc' = [ genpc EXCEPT ![d] = "send" ]
           ELSE UNCHANGED << genval, genpc >>
  /\ chbuf' = [ chbuf EXCEPT ![d - 1] = Tail(@) ]
  /\ UNCHANGED << mainVars, genci, chclosed, rotVars, workVars, writeVars,
                  histVars >>

\* out <- string(c) + rest
GenSend(d) ==
  /\ Running /\ genpc[d] = "send"
  /\ SendOut(d, genval[d])
  /\ genpc' = [ genpc EXCEPT ![d] = "recv" ]
  /\ UNCHANGED << mainVars, genci, genval, chclosed, rotatedClosed, workVars,
                  writeVars, rotSent, sentPuzzles, created, ioErrs >>

\* for rest := range ch: ch is closed and empty, on to the next c
GenNext(d) ==
  /\ Running /\ genpc[d] = "recv"
  /\ chbuf[d - 1] = << >> /\ chclosed[d - 1]
  /\ genci' = [ genci EXCEPT ![d] = @ + 1 ]
  /\ genpc' = [ genpc EXCEPT ![d] = "loop" ]
  /\ UNCHANGED << mainVars, genval, chbuf, chclosed, rotVars, workVars,
                  writeVars, histVars >>

\* a generator that returns without close(out)
GenCloseMissing(d) ==
  /\ Running /\ genpc[d] = "loop"
  /\ ~ (genci[d] <= Len(alphabet))
  /\ genpc' = [ genpc EXCEPT ![d] = "done" ]
  /\ UNCHANGED << mainVars, genci, genval, chbuf, chclosed, rotVars, workVars,
                  writeVars, histVars >>

\* the loop over alphabet is over: close(out)
GenClose(d) ==
  /\ Running /\ genpc[d] = "loop"
  /\ ~ (genci[d] <= Len(alphabet))
  /\ chclosed' = [ chclosed EXCEPT ![d] = TRUE ]
  /\ genpc' = [ genpc EXCEPT ![d] = "done" ]
  /\ UNCHANGED << mainVars, genci, genval, chbuf, rotVars, workVars, writeVars,
                  histVars >>

(***************************************************************************)
(* rotate(strings, rotated).                                               *)
(***************************************************************************)
\* a matcher that returns when it rejects a variant
RotateSendQuitOnReject ==
  /\ Running /\ rotpc = "send"
  /\ BagIn(WRecv, workers)
  /\ LET v == Rotation(rots, roti)
         p == MatchOne(allWords, v)
     IN  /\ rotSent' = Append(rotSent, v)
         /\ workers' = IF p = NoPuzzle THEN WMove(WRecv, WDone)
                                       ELSE WMove(WRecv, WSend(p))
         /\ wg' = IF p = NoPuzzle THEN wg - 1 ELSE wg
  /\ roti' = roti + 1
  /\ rotpc' = IF roti + 1 < Len(rots) THEN "send" ELSE "recv"
  /\ UNCHANGED << numLetters, parallel, fileBytes, exit, mainpc, rest,
                  allWords, mainI, wg2, genVars, rots, rotatedClosed,
                  puzzlesClosed, writeVars, genSent, sentPuzzles, created,
                  ioErrs >>

\* out <- rest + first, received by a matcher, which runs the body of its
\* loop up to its next channel operation: the next receive, or the send of a
\* puzzle
RotateSend ==
  /\ Running /\ rotpc = "send"
  /\ BagIn(WRecv, workers)
  /\ LET v == Rotation(rots, roti)
         p == MatchOne(allWords, v)
     IN  /\ rotSent' = Append(rotSent, v)
         /\ workers' = IF p = NoPuzzle THEN workers
                                       ELSE WMove(WRecv, WSend(p))
  /\ roti' = roti + 1
  /\ rotpc' = IF roti + 1 < Len(rots) THEN "send" ELSE "recv"
  /\ UNCHANGED << mainVars, genVars, rots, rotatedClosed, puzzlesClosed,
                  writeVars, genSent, sentPuzzles, created, ioErrs >>

\* a rotate that closes out as soon as it waits for a combination
RotateCloseEarly ==
  /\ Running /\ rotpc = "recv"
  /\ rotatedClosed' = TRUE
  /\ rotpc' = "done"
  /\ UNCHANGED << mainVars, genVars, rots, roti, workVars, writeVars,
                  histVars >>

\* for s := range in: strings is closed; close(out)
RotateClose ==
  /\ Running /\ rotpc = "recv"
  /\ chclosed[numLetters]
  /\ rotatedClosed' = TRUE
  /\ rotpc' = "done"
  /\ UNCHANGED << mainVars, genVars, rots, roti, workVars, writeVars,
                  histVars >>

(***************************************************************************)
(* matchWords(allWords, rotated, puzzles), one per worker.                 *)
(***************************************************************************)
\* out <- puzzle{...}, received by the select of writePuzzles
WorkerSend(p) ==
  /\ Running /\ BagIn(WSend(p), workers)
  /\ wrpc = "recv"
  /\ wrp' = p
  /\ wrpc' = "create"
  /\ sentPuzzles' = Append(sentPuzzles, p.letters)
  /\ workers' = WMove(WSend(p), WRecv)
  /\ UNCHANGED << mainVars, genVars, rotVars, puzzlesClosed, files, genSent,
                  rotSent, created, ioErrs >>

\* for s := range in: rotated is closed; return; wg.Done()
WorkerReturn ==
  /\ Running /\ BagIn(WRecv, workers)
  /\ rotatedClosed
  /\ workers' = WMove(WRecv, WDone)
  /\ wg' = wg - 1
  /\ UNCHANGED << numLetters, parallel, fileBytes, exit, mainpc, rest,
                  allWords, mainI, wg2, genVars, rotVars, puzzlesClosed,
                  writeVars, histVars >>

(***************************************************************************)
(* writePuzzles(puzzles).                                                  *)
(***************************************************************************)
\* os.Create succeeds (the file is created or truncated), then the Fprintln
\* calls and f.Close()
WriterWrite ==
  /\ Running /\ wrpc = "create"
  /\ files' = (FileName(wrp) :> FileLines(wrp)) @@ files
  /\ created' = Append(created, FileName(wrp))
  /\ wrpc' = "recv"
  /\ UNCHANGED << mainVars, genVars, rotVars, workVars, wrp, genSent,
                  rotSent, sentPuzzles, ioErrs >>

\* os.Create succeeds, then an Fprintln returns an error: the code does not
\* look at what Fprintln and f.Close() return, so the loop goes on.  The file
\* keeps the lines written before the error.
WriterWriteFail ==
  /\ Running /\ wrpc = "create"
  /\ Cardinality(ioErrs) < MaxWriteErrs
  /\ \E k \in 0..(Len(FileLines(wrp)) - 1) :
       files' = (FileName(wrp) :> SubSeq(FileLines(wrp), 1, k)) @@ files
  /\ ioErrs' = ioErrs \cup { FileName(wrp) }
  /\ created' = Append(created, FileName(wrp))
  /\ wrpc' = "recv"
  /\ UNCHANGED << mainVars, genVars, rotVars, workVars, wrp, genSent,
                  rotSent, sentPuzzles >>

\* os.Create fails: log.Fatalf
WriterCreateFail ==
  /\ Running /\ wrpc = "create"
  /\ exit' = "fatal"
  /\ UNCHANGED << numLetters, parallel, fileBytes, mainpc, rest, allWords,
                  mainI, wg, wg2, genVars, rotVars, workVars, writeVars,
                  histVars >>

\* case <-t: "%" is printed when verbose; standard output is not part of the
\* state, so the step changes nothing
WriterTick ==
  /\ Running /\ wrpc = "recv"
  /\ UNCHANGED vars

\* case p, ok := <-in with !ok: return; wg2.Done()
WriterReturn ==
  /\ Running /\ wrpc = "recv"
  /\ puzzlesClosed
  /\ wrpc' = "done"
  /\ wg2' = wg2 - 1
  /\ UNCHANGED << numLetters, parallel, fileBytes, exit, mainpc, rest,
                  allWords, mainI, wg, genVars, rotVars, workVars, wrp,
                  files, histVars >>

(***************************************************************************)
(* The program.                                                            *)
(***************************************************************************)
\* the steps of every run, whatever the dictionary
Upstream ==
  \/ MainGoGen
  \/ MainGoRotate
  \/ MainGoWriter
  \/ MainOpen
  \/ MainOpenFail
  \/ MainReadLine
  \/ MainReadFail
  \/ MainGoWorker
  \/ MainClosePuzzles
  \/ MainExit
  \/ \E d \in Depths : GenEmitLetter(d)
  \/ \E d \in Depths : GenSpawn(d)
  \/ \E d \in Depths : GenRecv(d)
  \/ \E d \in Depths : GenSend(d)
  \/ \E d \in Depths : GenNext(d)
  \/ \E d \in Depths : GenClose(d)
  \/ RotateSend
  \/ RotateClose
  \/ WorkerReturn
  \/ WriterTick
  \/ WriterReturn

\* the steps that need an accepted puzzle
Downstream ==
  \/ \E e \in BagToSet(workers) : WorkerSend(e.puz)
  \/ WriterWrite
  \/ WriterCreateFail

Next == Upstream \/ Downstream

Spec == Init /\ [][Next]_vars

(***************************************************************************)
(* Scheduling.  As long as some goroutine can run its next statement, or   *)
(* some channel operation has both its partners waiting, one such step     *)
(* happens; the ticker alone owes nothing.  This asks less of the Go        *)
(* scheduler than fairness to each goroutine does.  What os.Open,          *)
(* ReadBytes and os.Create return is up to the file system.                *)
(***************************************************************************)
Progress ==
  \/ MainGoGen
  \/ MainGoRotate
  \/ MainGoWriter
  \/ MainOpen
  \/ MainOpenFail
  \/ MainReadFail
  \/ MainReadLine
  \/ MainGoWorker
  \/ MainClosePuzzles
  \/ MainExit
  \/ \E d \in Depths : GenEmitLetter(d)
  \/ \E d \in Depths : GenSpawn(d)
  \/ \E d \in Depths : GenRecv(d)
  \/ \E d \in Depths : GenSend(d)
  \/ \E d \in Depths : GenNext(d)
  \/ \E d \in Depths : GenClose(d)
  \/ RotateClose
  \/ WorkerReturn
  \/ WriterReturn
  \/ Downstream
  \/ RotateSend

Fairness == WF_vars(Progress)

FairSpec == Init /\ [][Next]_vars /\ Fairness


(***************************************************************************)
(* The program on a disk that can fail a write.  Spec holds the runs in    *)
(* which every Fprintln succeeds; here up to MaxWriteErrs files meet a     *)
(* write error, and ./puzzels may hold files of an earlier run.            *)
(***************************************************************************)
StaleLine == << "s", "t", "a", "l", "e" >>

StaleDir ==
  [ fn \in { << "a", ".", "t", "x", "t" >>,
             << "a", "b", ".", "t", "x", "t" >> } |-> << StaleLine >> ]

InitIO ==
  /\ numLetters \in 1..MaxNumLetters
  /\ parallel = 1
  /\ fileBytes = FileOf(WordList1, TRUE)
  /\ exit = "running"
  /\ mainpc = "goGen"
  /\ rest = << >>
  /\ allWords = << >>
  /\ mainI = 0
  /\ wg = 0
  /\ wg2 = 0
  /\ genpc = [ d \in Depths |-> "idle" ]
  /\ genci = [ d \in Depths |-> 1 ]
  /\ genval = [ d \in Depths |-> << >> ]
  /\ chbuf = [ d \in Depths |-> << >> ]
  /\ chclosed = [ d \in Depths |-> FALSE ]
  /\ rotpc = "idle"
  /\ rots = << >>
  /\ roti = 0
  /\ rotatedClosed = FALSE
  /\ workers = EmptyBag
  /\ puzzlesClosed = FALSE
  /\ wrpc = "idle"
  /\ wrp = NoPuzzle
  /\ files \in { << >>, StaleDir }
  /\ genSent = << >>
  /\ rotSent = << >>
  /\ sentPuzzles = << >>
  /\ created = << >>
  /\ ioErrs = {}

NextIO == Upstream \/ Downstream \/ WriterWriteFail

SpecIO == InitIO /\ [][NextIO]_vars

(***************************************************************************)
(* The generator and the rotation expander on their own: every length up   *)
(* to one more than the alphabet has letters, an empty dictionary, one     *)
(* matcher, which then only consumes.                                      *)
(***************************************************************************)
InitGen ==
  /\ numLetters \in 1..(AlphabetSize + 1)
  /\ parallel = 1
  /\ fileBytes = << >>
  /\ Start

SpecGen == InitGen /\ [][Upstream]_vars

(***************************************************************************)
(* The matchers on their own.  The body of the loop of matchWords reads    *)
(* allWords and s only: the dictionary is what genAllWords returns for any *)
(* run of consecutive lines of WordPool, rotate holds any combination, one *)
(* matcher and the writer are waiting.  No step of this specification      *)
(* reads the generator, which is left as at the start.                     *)
(***************************************************************************)
WordPool ==
  Runs("a", 5, 14)
    \o << << "a", "a", "a", "a", "b" >>,
          << "a", "b", "a", "b", "a" >>,
          << "b", "b", "b", "b", "a" >>,
          << "a", "a", "b", "b", "b", "c" >>,
          << "b", "a", "b", "a", "b" >>,
          << "b", "b", "a", "a", "b" >>,
          << "b", "b", "b", "b", "b" >>,
          << "b", "a", "a", "a", "b" >>,
          << "a", "b", "b", "b", "a" >>,
          << "b", "b", "b", "b", "b", "b" >>,
          << "a", "b", "a", "a", "b" >>,
          << "c", "a", "b", "c", "b", "a" >>,
          << "b", "b", "a", "b", "b" >> >>

PoolFiles ==
  { FileOf(SubSeq(WordPool, i, j), TRUE) :
      i \in 1..Len(WordPool), j \in 1..Len(WordPool) }

\* the strictly increasing strings of n letters of the alphabet
IsIncreasing(s) == \A i \in 1..(Len(s) - 1) : Byte(s[i]) < Byte(s[i + 1])

IncreasingStrings(n) ==
  { s \in [ 1..n -> Range(alphabet) ] : IsIncreasing(s) }

InitMatch ==
  /\ numLetters \in 1..MaxNumLetters
  /\ parallel = 1
  /\ fileBytes \in PoolFiles
  /\ exit = "running"
  /\ mainpc = "goWorkers"
  /\ rest = << >>
  /\ allWords = genAllWords(fileBytes, numLetters)
  /\ mainI = 1
  /\ wg = 1
  /\ wg2 = 1
  /\ genpc = [ d \in Depths |-> "idle" ]
  /\ genci = [ d \in Depths |-> 1 ]
  /\ genval = [ d \in Depths |-> << >> ]
  /\ chbuf = [ d \in Depths |-> << >> ]
  /\ chclosed = [ d \in Depths |-> FALSE ]
  /\ rotpc = "send"
  /\ rots \in IncreasingStrings(numLetters)
  /\ roti = 0
  /\ rotatedClosed = FALSE
  /\ workers = SetToBag({ WRecv })
  /\ puzzlesClosed = FALSE
  /\ wrpc = "recv"
  /\ wrp = NoPuzzle
  /\ files = << >>
  /\ genSent = << rots >>
  /\ rotSent = << >>
  /\ sentPuzzles = << >>
  /\ created = << >>
  /\ ioErrs = {}

NextMatch == RotateSend \/ WriterTick \/ Downstream

SpecMatch == InitMatch /\ [][NextMatch]_vars

(***************************************************************************)
(* The loader on its own: main has started the generator, the expander and *)
(* the writer, none of which has been scheduled yet, and reads a file of   *)
(* up to MaxLines lines drawn from RawLines, the last one with or without  *)
(* its newline.                                                            *)
(***************************************************************************)
RawLines ==
  { << "a", "a", "a", "a", "a" >>,
    << "a", "a", "b", "b" >>,
    << "b", "a", "a", "a", "b" >>,
    << "a", "b", "c", "a", "b" >>,
    << "A", "a", "a", "a", "a" >>,
    << "a", "a", "a", "a", "1" >>,
    << " ", "b", "b", "b", "b", "b", "\t" >>,
    << "b", "b", "a", "b", "b", "\r" >>,
    << "a", "a", " ", "a", "a", "a" >>,
    << >> }

LineSeqs == UNION { [ 1..k -> RawLines ] : k \in 0..MaxLines }

LoadFiles == { FileOf(ls, term) : ls \in LineSeqs, term \in BOOLEAN }

InitLoad ==
  /\ numLetters \in 1..MaxNumLetters
  /\ parallel = 1
  /\ fileBytes \in LoadFiles
  /\ exit = "running"
  /\ mainpc = "open"
  /\ rest = << >>
  /\ allWords = << >>
  /\ mainI = 0
  /\ wg = 0
  /\ wg2 = 1
  /\ genpc = [ d \in Depths |-> IF d = numLetters THEN "loop" ELSE "idle" ]
  /\ genci = [ d \in Depths |-> 1 ]
  /\ genval = [ d \in Depths |-> << >> ]
  /\ chbuf = [ d \in Depths |-> << >> ]
  /\ chclosed = [ d \in Depths |-> FALSE ]
  /\ rotpc = "recv"
  /\ rots = << >>
  /\ roti = 0
  /\ rotatedClosed = FALSE
  /\ workers = EmptyBag
  /\ puzzlesClosed = FALSE
  /\ wrpc = "recv"
  /\ wrp = NoPuzzle
  /\ files = << >>
  /\ genSent = << >>
  /\ rotSent = << >>
  /\ sentPuzzles = << >>
  /\ created = << >>
  /\ ioErrs = {}

NextLoad == MainOpen \/ MainOpenFail \/ MainReadLine \/ MainReadFail

SpecLoad == InitLoad /\ [][NextLoad]_vars

(***************************************************************************)
(* Vocabulary of the properties.                                           *)
(***************************************************************************)
RECURSIVE Binomial(_, _)
Binomial(n, k) ==
  IF k = 0 THEN 1
  ELSE IF n = 0 THEN 0
  ELSE Binomial(n - 1, k - 1) + Binomial(n - 1, k)

NoDup(seq) ==
  \A i \in DOMAIN seq : \A j \in DOMAIN seq : i < j => seq[i] # seq[j]

\* C4: genAllStrings(N, out) sends only strictly increasing strings of N
\* letters and none twice; once out is closed it has sent every such string,
\* C(|alphabet|, N) in all; with N above the size of the alphabet it sends
\* nothing; out is closed exactly when the call has returned.
C4_GeneratorSendsEveryCombinationOnce ==
  /\ \A k \in DOMAIN genSent :
       /\ Len(genSent[k]) = numLetters
       /\ Range(genSent[k]) \subseteq Range(alphabet)
       /\ IsIncreasing(genSent[k])
  /\ NoDup(genSent)
  /\ numLetters > Len(alphabet) => genSent = << >>
  /\ chclosed[numLetters] <=> genpc[numLetters] = "done"
  /\ chclosed[numLetters] =>
       /\ Range(genSent) = IncreasingStrings(numLetters)
       /\ Len(genSent) = Binomial(Len(alphabet), numLetters)

C4_Witness ==
  /\ chclosed[numLetters]
  /\ numLetters = 2
  /\ Len(genSent) = 3

\* C5: the k-th string rotate sends is rotation (k-1) mod N of combination
\* (k-1) div N + 1 it received, its j-th letter being letter j+i (cyclically)
\* of the combination; so each combination gives N strings, in increasing
\* rotation index, before the next combination; and when rotate has closed
\* its output it has sent N times as many strings as it received.
C5_RotateSendsRotationsInOrder ==
  LET n == numLetters
      inHand == IF rotpc = "send" THEN 1 ELSE 0
  IN  /\ Len(rotSent) = n * (Len(genSent) - inHand) + inHand * roti
      /\ \A k \in DOMAIN rotSent :
           LET c == genSent[((k - 1) \div n) + 1]
               i == (k - 1) % n
           IN  /\ Len(rotSent[k]) = Len(c)
               /\ \A j \in 1..Len(c) :
                    rotSent[k][j] = c[((j - 1 + i) % Len(c)) + 1]
      /\ rotatedClosed => Len(rotSent) = n * Len(genSent)

C5_Witness ==
  /\ rotatedClosed
  /\ numLetters = 2
  /\ Len(rotSent) = 6


\* the indices of the dictionary words that qualify for s: s[0] occurs in the
\* word and every letter of the word is a letter of s
QualIdx(dict, s) ==
  { i \in DOMAIN dict :
      /\ s[1] \in Range(dict[i])
      /\ Range(dict[i]) \subseteq Range(s) }

\* w uses every letter of s
IsPangram(w, s) == Range(s) \subseteq Range(w)

Playable(dict, s) ==
  /\ Cardinality(QualIdx(dict, s)) >= 10
  /\ \E i \in QualIdx(dict, s) : IsPangram(dict[i], s)

\* the puzzles a matcher is sending or the writer has just received
InFlight ==
  { e.puz : e \in { x \in BagToSet(workers) : x.pc = "send" } }
    \cup (IF wrpc = "create" THEN { wrp } ELSE {})

Sending == BagCardinality(workers) - CopiesIn(WRecv, workers)
             - CopiesIn(WDone, workers)

\* C1: a variant a matcher has received has a puzzle sent (being sent, or
\* received by the writer) if and only if at least 10 dictionary words
\* qualify for it and one of them contains every letter of it; the puzzles
\* sent are as many as such variants, so nothing else is sent.
C1_PuzzleSentIffPlayable ==
  /\ \A k \in DOMAIN rotSent :
       LET s == rotSent[k]
       IN  (\/ \E p \in InFlight : p.letters = s
            \/ \E j \in DOMAIN sentPuzzles : sentPuzzles[j] = s)
             <=> Playable(allWords, s)
  /\ Len(sentPuzzles) + Sending
       = Cardinality({ k \in DOMAIN rotSent : Playable(allWords, rotSent[k]) })

C1_Witness ==
  /\ Len(rotSent) = 2
  /\ Len(sentPuzzles) = 1
  /\ Sending = 0
  /\ Cardinality(QualIdx(allWords, rotSent[1])) = 10
  /\ sentPuzzles[1] = rotSent[1]

\* C2: the words of a puzzle sent for s are the qualifying words of the
\* dictionary, each once, in dictionary order: the k-th word of the puzzle is
\* the dictionary word at the k-th smallest qualifying index.
C2_WordsAreQualifyingSubsequence ==
  \A p \in InFlight :
    LET I == QualIdx(allWords, p.letters)
    IN  /\ Len(p.words) = Cardinality(I)
        /\ \A i \in I :
             p.words[Cardinality({ j \in I : j <= i })] = allWords[i]

C2_Witness ==
  \E p \in InFlight :
    /\ Len(p.letters) = 2
    /\ Len(p.words) > 10
    /\ Cardinality(QualIdx(allWords, p.letters)) + 1 < Len(allWords)
    /\ \E i \in DOMAIN allWords :
         /\ i \notin QualIdx(allWords, p.letters)
         /\ i + 1 \in QualIdx(allWords, p.letters)
         /\ i > 1 /\ i - 1 \in QualIdx(allWords, p.letters)

\* C3: maxPts of a puzzle sent is 3 for each of its words that contains
\* every letter of the variant plus 1 for each other word; so it is at least
\* the number of words plus 2, and at least 12.
C3_ScoreIsThreePerPangramOnePerWord ==
  \A p \in InFlight :
    LET pan == { k \in DOMAIN p.words : IsPangram(p.words[k], p.letters) }
    IN  /\ p.maxPts = 3 * Cardinality(pan)
                        + 1 * (Len(p.words) - Cardinality(pan))
        /\ p.maxPts >= Len(p.words) + 2
        /\ p.maxPts >= 12

C3_Witness ==
  \E p \in InFlight :
    /\ p.maxPts > Len(p.words) + 2
    /\ p.maxPts < 3 * Len(p.words)


\* the lines of a file: the bytes between newlines, and the bytes after the
\* last newline when there are any
RECURSIVE SplitLines(_, _)
SplitLines(bytes, cur) ==
  IF bytes = << >> THEN (IF cur = << >> THEN << >> ELSE << cur >>)
  ELSE IF Head(bytes) = "\n" THEN << cur >> \o SplitLines(Tail(bytes), << >>)
  ELSE SplitLines(Tail(bytes), Append(cur, Head(bytes)))

\* a trimmed line is a dictionary entry
Retained(w, n) ==
  /\ Len(w) >= 5
  /\ Range(w) \subseteq Range(alphabet)
  /\ Cardinality(Range(w)) <= n

TrimAll(lines) == [ i \in DOMAIN lines |-> TrimSpace(lines[i]) ]

\* C6: once the file is loaded, the dictionary is the sequence of the
\* trimmed lines of the file, the last one included whether or not a newline
\* ends it, that have at least 5 characters, only lowercase letters and at
\* most N distinct letters, in the order of the file.
C6_EveryLineIsLoaded ==
  mainpc = "goWorkers" =>
    allWords = SelectSeq(TrimAll(SplitLines(fileBytes, << >>)),
                         LAMBDA w : Retained(w, numLetters))

\* the same for the files whose last line ends with a newline
C6_TerminatedLinesAreLoaded ==
  (mainpc = "goWorkers"
     /\ (fileBytes = << >> \/ fileBytes[Len(fileBytes)] = "\n")) =>
    allWords = SelectSeq(TrimAll(SplitLines(fileBytes, << >>)),
                         LAMBDA w : Retained(w, numLetters))

AllStagesDone ==
  /\ \A d \in Depths : genpc[d] = "done" /\ chclosed[d]
  /\ rotpc = "done" /\ rotatedClosed
  /\ CopiesIn(WDone, workers) = parallel
  /\ BagCardinality(workers) = parallel
  /\ puzzlesClosed
  /\ wrpc = "done"
  /\ mainpc = "done"

\* C7: under fair scheduling a run in which os.Open, ReadBytes and os.Create
\* never fail reaches main's return, and at main's return every generator
\* call has closed its channel and returned, rotate has closed rotated and
\* returned, every matcher has returned, puzzles is closed and the writer has
\* returned.
C7_PipelineTerminates ==
  [](exit # "fatal") => <>(exit = "exit0" /\ AllStagesDone)

C7_Witness ==
  /\ exit = "exit0"
  /\ numLetters = 2
  /\ parallel = 2
  /\ Len(created) >= 2

FileNameOf(letters) == letters \o << ".", "t", "x", "t" >>

\* C8: a puzzle received by the writer has its file created next, before
\* any other receive; and at main's return no matcher still holds a puzzle,
\* the writer has returned, every puzzle received has had its file created,
\* once, and the files are those of the variants received by the matchers
\* that at least 10 words and a pangram make playable.
C8_EveryPuzzleWrittenOnceBeforeExit ==
  /\ Len(sentPuzzles) = Len(created) + (IF wrpc = "create" THEN 1 ELSE 0)
  /\ \A k \in DOMAIN created : created[k] = FileNameOf(sentPuzzles[k])
  /\ exit = "exit0" =>
       /\ Sending = 0
       /\ wrpc = "done"
       /\ Len(created) = Len(sentPuzzles)
       /\ NoDup(created)
       /\ DOMAIN files = Range(created)
       /\ Range(sentPuzzles)
            = { rotSent[k] : k \in { j \in DOMAIN rotSent :
                                       Playable(allWords, rotSent[j]) } }

C8_Witness ==
  /\ exit = "exit0"
  /\ parallel = 2
  /\ numLetters = 2
  /\ Len(created) = 4

\* the rotations of the strictly increasing strings of n letters
Variants(n) ==
  { v \in [ 1..n -> Range(alphabet) ] :
      \E c \in IncreasingStrings(n) : \E i \in 0..(n - 1) :
        \A j \in 1..n : v[j] = c[((j - 1 + i) % n) + 1] }

\* C9: a puzzle sent is a function of its letters and the dictionary alone,
\* and at main's return the letters of the puzzles sent are exactly the
\* rotations of the combinations of N letters that the dictionary makes
\* playable, whatever the number of matchers and their interleaving.
C9_PuzzleSetIndependentOfPool ==
  /\ \A p \in InFlight :
       /\ p.letters \in Variants(numLetters)
       /\ p = MatchOne(allWords, p.letters)
  /\ exit = "exit0" =>
       Range(sentPuzzles)
         = { v \in Variants(numLetters) : Playable(allWords, v) }

\* two puzzles were sent in the opposite order of their variants
C9_Witness ==
  /\ exit = "exit0"
  /\ parallel = 2
  /\ \E i \in DOMAIN sentPuzzles : \E j \in DOMAIN sentPuzzles :
       /\ i < j
       /\ \E a \in DOMAIN rotSent : \E b \in DOMAIN rotSent :
            /\ rotSent[a] = sentPuzzles[i]
            /\ rotSent[b] = sentPuzzles[j]
            /\ b < a

\* C10: when the process has died in genAllWords, no stage of the pipeline
\* has been started or has taken a step.
C10_AbortBeforePipelineStarts ==
  (exit = "fatal" /\ mainpc \in { "open", "read" }) =>
    /\ \A d \in Depths : genpc[d] = "idle"
    /\ rotpc = "idle"
    /\ wrpc = "idle"
    /\ workers = EmptyBag
    /\ genSent = << >>
    /\ rotSent = << >>

(***************************************************************************)
(* Output files.                                                           *)
(***************************************************************************)
\* C11: once a file could not be written, the process does not reach main's
\* return and creates no further file; and when os.Create has failed the
\* process is dead with the puzzle it had received unwritten.
C11_OutputFailureIsFatal ==
  /\ ioErrs # {} =>
       /\ exit # "exit0"
       /\ created[Len(created)] \in ioErrs
  /\ (exit = "fatal" /\ wrpc = "create") => Len(created) < Len(sentPuzzles)

\* the creation half of C11 alone: a failed os.Create ends the process with
\* the received puzzle unwritten
C11_CreateFailureIsFatal ==
  (exit = "fatal" /\ wrpc = "create") => Len(created) < Len(sentPuzzles)

IsDecimal(s) ==
  /\ s # << >>
  /\ \A i \in 1..Len(s) : s[i] \in Range(Digits)
  /\ Len(s) > 1 => s[1] # "0"

DigitVal(ch) == (CHOOSE i \in 1..10 : Digits[i] = ch) - 1

RECURSIVE ParseDecimal(_)
ParseDecimal(s) ==
  IF s = << >> THEN 0
  ELSE 10 * ParseDecimal(SubSeq(s, 1, Len(s) - 1)) + DigitVal(s[Len(s)])

\* the file of puzzle p holds the words of p in order, then its score
HoldsPuzzle(dir, p) ==
  LET fn == p.letters \o << ".", "t", "x", "t" >>
  IN  /\ fn \in DOMAIN dir
      /\ Len(dir[fn]) = Len(p.words) + 1
      /\ \A i \in 1..Len(p.words) : dir[fn][i] = p.words[i]
      /\ IsDecimal(dir[fn][Len(dir[fn])])
      /\ ParseDecimal(dir[fn][Len(dir[fn])]) = p.maxPts

\* C12: when the writer has written the puzzle it received without a write
\* error, the file <letters>.txt holds the words of the puzzle, one per line
\* in the order of its word list, then one line with maxPts in decimal, and
\* nothing of what it held before; no other file is touched, and no step
\* other than the writing of a received puzzle changes a file.
C12_FileHoldsWordsThenScore ==
  [][ /\ (wrpc = "create" /\ wrpc' = "recv" /\ ioErrs' = ioErrs) =>
           /\ HoldsPuzzle(files', wrp)
           /\ DOMAIN files' = DOMAIN files \cup { wrp.letters \o << ".", "t", "x", "t" >> }
           /\ \A fn \in DOMAIN files :
                fn # wrp.letters \o << ".", "t", "x", "t" >> => files'[fn] = files[fn]
      /\ wrpc # "create" => files' = files ]_vars

\* a stale file of an earlier run was replaced by a puzzle of 11 lines or
\* more with a score of two digits, while another stale file is untouched
C12_Witness ==
  /\ wrpc = "recv"
  /\ wrp # NoPuzzle
  /\ FileName(wrp) \in DOMAIN StaleDir
  /\ FileName(wrp) \in Range(created)
  /\ FileName(wrp) \notin ioErrs
  /\ HoldsPuzzle(files, wrp)
  /\ Len(wrp.words) >= 10
  /\ wrp.maxPts >= 12
  /\ \E fn \in DOMAIN StaleDir :
       /\ fn # FileName(wrp)
       /\ fn \in DOMAIN files
       /\ files[fn] = << StaleLine >>

(***************************************************************************)
(* Channels.                                                               *)
(***************************************************************************)
\* C13: puzzles is closed only when every matcher has returned and main is
\* past its close; rotated is closed only when strings is closed, rotate has
\* sent the last variant of the last combination and has returned; the
\* channel of a generator call is closed only when that call has gone
\* through the whole alphabet and returned, and strings only when every
\* combination has been sent.  The only sender and closer of a closed
\* channel has thus returned: nothing is sent on it and it is not closed
\* again.
C13_ChannelsClosedInOrderAndOnce ==
  /\ puzzlesClosed =>
       /\ BagCardinality(workers) = parallel
       /\ CopiesIn(WDone, workers) = parallel
       /\ wg = 0
       /\ mainpc \in { "wait2", "done" }
       /\ rotatedClosed
  /\ rotatedClosed =>
       /\ rotpc = "done"
       /\ chclosed[numLetters]
       /\ Len(rotSent) = numLetters * Len(genSent)
  /\ \A d \in Depths :
       chclosed[d] => /\ genpc[d] = "done"
                      /\ genci[d] = Len(alphabet) + 1
  /\ chclosed[numLetters] =>
       Len(genSent) = Binomial(Len(alphabet), numLetters)

\* every channel is closed and the writer has not yet seen it
C13_Witness ==
  /\ numLetters = 2
  /\ parallel = 2
  /\ \A d \in Depths : chclosed[d]
  /\ rotatedClosed
  /\ puzzlesClosed
  /\ wrpc = "recv"
  /\ Len(sentPuzzles) >= 2

(***************************************************************************)
(* The variants of a combination.                                          *)
(***************************************************************************)
\* the places in rotSent of the variants of the k-th combination received
GroupOf(k) ==
  { j \in DOMAIN rotSent : (j - 1) \div numLetters = k - 1 }

\* C14: the variants sent for a combination have the letter set of the
\* combination and pairwise different first letters; once all N are sent,
\* every letter of the combination is the first letter of one of them.
C14_VariantsShareLettersDifferInFirst ==
  \A k \in DOMAIN genSent :
    /\ \A j \in GroupOf(k) : Range(rotSent[j]) = Range(genSent[k])
    /\ \A i \in GroupOf(k) : \A j \in GroupOf(k) :
         i # j => rotSent[i][1] # rotSent[j][1]
    /\ Cardinality(GroupOf(k)) = numLetters =>
         { rotSent[j][1] : j \in GroupOf(k) } = Range(genSent[k])

\* the three combinations of two letters have had both their variants sent
C14_Witness ==
  /\ numLetters = 2
  /\ Len(genSent) = 3
  /\ Len(rotSent) = 6

\* s rotated left by one position
RotL1(s) == IF s = << >> THEN s ELSE Tail(s) \o << Head(s) >>

RECURSIVE RotLTimes(_, _)
RotLTimes(s, n) == IF n = 0 THEN s ELSE RotLTimes(RotL1(s), n - 1)

\* C16: the first variant sent for a combination is the combination, every
\* later one is the one before it rotated left by one position, the N-th
\* rotated left by one position is the combination again, and a variant
\* rotated left by one position N times is itself.
C16_RotationsAreCyclic ==
  \A j \in DOMAIN rotSent :
    LET k == ((j - 1) \div numLetters) + 1
        i == (j - 1) % numLetters
    IN  /\ k \in DOMAIN genSent
        /\ i = 0 => rotSent[j] = genSent[k]
        /\ i > 0 => rotSent[j] = RotL1(rotSent[j - 1])
        /\ i = numLetters - 1 => RotL1(rotSent[j]) = genSent[k]
        /\ RotLTimes(rotSent[j], numLetters) = rotSent[j]

\* the three variants of abc are sent
C16_Witness ==
  /\ numLetters = 3
  /\ Len(rotSent) = 3
  /\ rotSent[3] # rotSent[1]
  /\ RotL1(rotSent[3]) = rotSent[1]

\* C15: no string is received twice from rotated, neither as two variants of
\* one combination nor as variants of two combinations; no two puzzles sent
\* have the same letters, and no file name is given twice to os.Create.
C15_NoVariantTwice ==
  /\ NoDup(rotSent)
  /\ NoDup(sentPuzzles)
  /\ NoDup(created)
  /\ \A i \in DOMAIN created : \A j \in DOMAIN created :
       i # j => sentPuzzles[i] # sentPuzzles[j]

\* a whole run of one matcher on two letters: six variants, four files
C15_Witness ==
  /\ exit = "exit0"
  /\ numLetters = 2
  /\ parallel = 1
  /\ Len(rotSent) = 6
  /\ Cardinality(DOMAIN files) = 4

(***************************************************************************)
(* Backpressure.                                                           *)
(***************************************************************************)
\* what the unbuffered channels strings, rotated and puzzles allow in a state
OneItemAhead ==
  /\ rotpc = "send" =>
       /\ genSent # << >>
       /\ Len(rotSent) = numLetters * (Len(genSent) - 1) + roti
       /\ roti < numLetters
  /\ rotpc \in { "recv", "done" } => Len(rotSent) = numLetters * Len(genSent)
  /\ Sending <= parallel
  /\ Len(sentPuzzles) = Len(created) + (IF wrpc = "create" THEN 1 ELSE 0)

\* a send completes in the step in which its receiver, waiting, takes the item
SendMeetsReceive ==
  /\ genSent' # genSent =>
       /\ rotpc = "recv" /\ rotpc' = "send"
       /\ genSent' = Append(genSent, rots')
  /\ rotSent' # rotSent =>
       /\ rotpc = "send"
       /\ BagIn(WRecv, workers)
       /\ Len(rotSent') = Len(rotSent) + 1
  /\ sentPuzzles' # sentPuzzles =>
       /\ wrpc = "recv" /\ wrpc' = "create"
       /\ sentPuzzles' = Append(sentPuzzles, wrp'.letters)
       /\ CopiesIn(WRecv, workers') = CopiesIn(WRecv, workers) + 1

\* a stage waiting for input moves on only with an item or with the close
ReleasedByItemOrClose ==
  /\ (rotpc = "recv" /\ rotpc' # "recv") =>
       \/ genSent' # genSent
       \/ chclosed[numLetters] /\ rotpc' = "done"
  /\ CopiesIn(WRecv, workers') < CopiesIn(WRecv, workers) =>
       \/ rotSent' # rotSent
       \/ rotatedClosed /\ CopiesIn(WDone, workers') = CopiesIn(WDone, workers) + 1
  /\ (wrpc = "recv" /\ wrpc' # "recv") =>
       \/ sentPuzzles' # sentPuzzles
       \/ puzzlesClosed /\ wrpc' = "done"

\* C17: on strings, rotated and puzzles a send completes only in the step in
\* which the next stage receives the item; so rotate holds at most one
\* combination and the generator is never further ahead, a matcher holds at
\* most one variant or puzzle, the writer at most one puzzle; and a stage
\* waiting for input moves on only with an item or with the close of its
\* input.
C17_Backpressure ==
  /\ []OneItemAhead
  /\ [][SendMeetsReceive /\ ReleasedByItemOrClose]_vars

\* every stage is held back by the next: the writer is writing, the matcher
\* holds a second puzzle, rotate holds a combination and the generator the
\* next one
C17_Witness ==
  /\ parallel = 1
  /\ numLetters = 2
  /\ wrpc = "create"
  /\ Sending = 1
  /\ rotpc = "send"
  /\ genpc[numLetters] = "send"

(***************************************************************************)
(* The matcher pool.                                                       *)
(***************************************************************************)
\* the places in rotSent of the variants the dictionary makes playable
PlayableAt == { j \in DOMAIN rotSent : Playable(allWords, rotSent[j]) }

\* the letters of the puzzles the matchers hold
HeldLetters ==
  { e.puz.letters : e \in { x \in BagToSet(workers) : x.pc = "send" } }

\* C18: every variant received from rotated has been evaluated once: the
\* playable ones are, each once, the puzzles sent or held by a matcher, the
\* others left no puzzle; a matcher has returned only when rotated is closed
\* and every variant has been received, so a matcher that rejects a variant
\* stays in the pool; and at main's return every variant of every
\* combination has been received.
C18_EveryVariantMatchedOnce ==
  /\ Cardinality(PlayableAt) = Len(sentPuzzles) + Sending
  /\ Range(sentPuzzles) \cup HeldLetters = { rotSent[j] : j \in PlayableAt }
  /\ Range(sentPuzzles) \cap HeldLetters = {}
  /\ BagCardinality(workers) = mainI
  /\ CopiesIn(WDone, workers) > 0 =>
       /\ rotatedClosed
       /\ Len(rotSent) = numLetters * Binomial(Len(alphabet), numLetters)
  /\ exit = "exit0" =>
       /\ Len(rotSent) = numLetters * Binomial(Len(alphabet), numLetters)
       /\ NoDup(rotSent)

\* one matcher has rejected ac and ca and then accepted bc and cb
C18_Witness ==
  /\ parallel = 1
  /\ numLetters = 2
  /\ Len(rotSent) = 6
  /\ Cardinality(PlayableAt) = 4
  /\ Sending = 1
  /\ Len(sentPuzzles) = 3

(***************************************************************************)
(* The order of the stream.                                                *)
(***************************************************************************)
\* s comes before t in lexicographic order
LexLess(s, t) ==
  \E i \in 1..Len(s) :
    /\ i <= Len(t)
    /\ Byte(s[i]) < Byte(t[i])
    /\ \A j \in 1..(i - 1) : s[j] = t[j]

LexIncreasing(seq) ==
  \A i \in 1..(Len(seq) - 1) : LexLess(seq[i], seq[i + 1])

\* the strings of set S in lexicographic order
RECURSIVE LexSorted(_)
LexSorted(S) ==
  IF S = {} THEN << >>
  ELSE LET m == CHOOSE x \in S : \A y \in S \ { x } : LexLess(x, y)
       IN  << m >> \o LexSorted(S \ { m })

\* the one stream of variants for n letters: the combinations in
\* lexicographic order, each followed by its rotations
VariantStream(n) ==
  LET combos ==
        LexSorted({ SelectSeq(alphabet, LAMBDA x : x \in S) :
                      S \in { T \in SUBSET Range(alphabet) : Cardinality(T) = n } })
  IN  [ j \in 1..(n * Len(combos)) |->
          RotLTimes(combos[((j - 1) \div n) + 1], (j - 1) % n) ]

\* C19: the strings every generator call has sent, those waiting in a
\* buffered channel and those received from strings, are in strictly
\* increasing lexicographic order, and what has been received from rotated
\* is a prefix of one sequence fixed by N.
C19_StreamIsLexicographic ==
  /\ LexIncreasing(genSent)
  /\ \A d \in Depths : LexIncreasing(chbuf[d])
  /\ \A d \in Depths :
       (genpc[d] = "send" /\ d = numLetters /\ genSent # << >>) =>
          LexLess(genSent[Len(genSent)], genval[d])
  /\ \E stream \in { VariantStream(numLetters) } :
       /\ Len(rotSent) <= Len(stream)
       /\ rotSent = SubSeq(stream, 1, Len(rotSent))

\* three letters: the call for two letters has its three strings waiting in
\* the buffer
C19_Witness ==
  /\ numLetters = 3
  /\ Len(chbuf[2]) = 3

(***************************************************************************)
(* The filter on distinct letters.                                         *)
(***************************************************************************)
\* the dictionary filtered on length and on lowercase letters only: no word
\* of lowercase letters has more than 26 distinct letters
UnfilteredWords == genAllWords(fileBytes, Len(Letters26))

\* C20: for every variant a matcher has received, the loaded dictionary and
\* the dictionary filtered on length and lowercase letters only give the same
\* qualifying words, the same decision to send or not, and the same puzzle,
\* score included.
C20_LetterFilterLosesNothing ==
  \A j \in DOMAIN rotSent :
    /\ MatchLoop(allWords, rotSent[j], << >>)
         = MatchLoop(UnfilteredWords, rotSent[j], << >>)
    /\ MatchOne(allWords, rotSent[j]) = MatchOne(UnfilteredWords, rotSent[j])
    /\ ScoreLoop(MatchLoop(allWords, rotSent[j], << >>), rotSent[j],
                 [ maxPts |-> 0, someContainsAll |-> FALSE ])
         = ScoreLoop(MatchLoop(UnfilteredWords, rotSent[j], << >>), rotSent[j],
                     [ maxPts |-> 0, someContainsAll |-> FALSE ])

\* the filter has dropped a word of three letters, and a variant of two
\* letters has its puzzle
C20_Witness ==
  /\ numLetters = 2
  /\ Len(allWords) < Len(UnfilteredWords)
  /\ rotSent # << >>
  /\ MatchOne(allWords, rotSent[Len(rotSent)]) # NoPuzzle
  /\ Sending + Len(sentPuzzles) >= 1

====
